---- MODULE Spec2Model ----
(***************************************************************************)
(* The speech capture engine of lesson-companion (class Speech): one       *)
(* engine instance on the browser's event loop.  Every action is one task  *)
(* of that loop: a public method call, a timer callback, a recognizer or   *)
(* recorder event handler, or the continuation of an await.                *)
(*                                                                         *)
(* Text is a sequence of one-character strings; audio data is a sequence   *)
(* of byte values.                                                         *)
(***************************************************************************)
EXTENDS Integers, Sequences, FiniteSets, Bags, TLC

\* ---------------------------------------------------------------- bounds

\* longest transcript buffer (characters) the model lets the engine build
MaxLen == 4
\* number of recognizer objects the engine may construct
MaxRecog == 2
\* number of microphone streams / recorders the engine may acquire
MaxRec == 2
\* dataavailable events the platform delivers for one recording
MaxParts == 2
\* number of start() calls that may be suspended on the permission prompt
MaxPending == 2
\* result segments carried by one recognition event
MaxSegs == 2
\* transcription requests the application issues in one behaviour
MaxReq == 2

\* ------------------------------------------------------ program constants

\* this._maxRestarts
MaxRestarts == 10

\* ------------------------------------------------------------------ text

SP == " "

RECURSIVE TrimLeft(_)
TrimLeft(s) == IF s # <<>> /\ Head(s) = SP THEN TrimLeft(Tail(s)) ELSE s

RECURSIVE TrimRight(_)
TrimRight(s) ==
  IF s # <<>> /\ s[Len(s)] = SP THEN TrimRight(SubSeq(s, 1, Len(s) - 1)) ELSE s

\* String.prototype.trim
Trim(s) == TrimRight(TrimLeft(s))

\* texts the platform may report for one result segment
SegTexts == { <<"a">>, <<SP, "b">>, <<>> }

\* one entry of event.results: isFinal and [0].transcript (the text of an
\* interim entry is never read)
Segments == [isFinal : {TRUE}, transcript : SegTexts]
              \cup { [isFinal |-> FALSE, transcript |-> << "a" >>] }

\* the part of event.results from event.resultIndex on
ResultLists == UNION { [1..n -> Segments] : n \in 1..MaxSegs }

\* texts an external transcription hands to appendTranscript
AppendTexts == { <<"c">> }

\* recognizer error kinds (event.error)
ErrorKinds == { "no-speech", "aborted", "network" }

\* ------------------------------------------------------------- audio data

\* data of one dataavailable event (e.data); <<>> has size 0
Parts == { <<>>, <<65>>, <<66, 67>> }

RECURSIVE Concat(_)
\* new Blob(parts): the parts' bytes in order
Concat(parts) == IF parts = <<>> THEN <<>> ELSE Head(parts) \o Concat(Tail(parts))

RECURSIVE SumSizes(_)
SumSizes(parts) == IF parts = <<>> THEN 0 ELSE Len(Head(parts)) + SumSizes(Tail(parts))

\* history: the bytes of a burst of sub-buffers, first to last
Reported(burst) ==
  [i \in 1..SumSizes(burst) |->
     LET k == CHOOSE k \in 1..Len(burst) :
                /\ SumSizes(SubSeq(burst, 1, k - 1)) < i
                /\ i <= SumSizes(SubSeq(burst, 1, k))
     IN  burst[k][i - SumSizes(SubSeq(burst, 1, k - 1))]]

\* base64 digit values 0..63; 64 stands for the padding character '='
PadDigit == 64

RECURSIVE Base64Encode(_)
Base64Encode(bytes) ==
  IF bytes = <<>> THEN <<>>
  ELSE IF Len(bytes) = 1 THEN
    << bytes[1] \div 4, (bytes[1] % 4) * 16, PadDigit, PadDigit >>
  ELSE IF Len(bytes) = 2 THEN
    << bytes[1] \div 4, (bytes[1] % 4) * 16 + bytes[2] \div 16,
       (bytes[2] % 16) * 4, PadDigit >>
  ELSE
    << bytes[1] \div 4, (bytes[1] % 4) * 16 + bytes[2] \div 16,
       (bytes[2] % 16) * 4 + bytes[3] \div 64, bytes[3] % 64 >>
      \o Base64Encode(SubSeq(bytes, 4, Len(bytes)))

RECURSIVE Base64Decode(_)
Base64Decode(digits) ==
  IF Len(digits) < 4 THEN <<>>
  ELSE
    LET a == digits[1]
        b == digits[2]
        c == digits[3]
        d == digits[4]
        b1 == a * 4 + b \div 16
        b2 == (b % 16) * 16 + c \div 4
        b3 == (c % 4) * 64 + d
    IN  IF c = PadDigit THEN << b1 >>
        ELSE IF d = PadDigit THEN << b1, b2 >>
        ELSE << b1, b2, b3 >> \o Base64Decode(SubSeq(digits, 5, Len(digits)))

\* FileReader.readAsDataURL: the header and the base64 body, as the fields
\* that splitting the URL at ',' yields
ReadAsDataURL(bytes) == << "data:audio;base64", Base64Encode(bytes) >>

\* reader.result.split(',')[1] || ''
_blobToBase64(bytes) ==
  LET fields == ReadAsDataURL(bytes)
  IN  IF Len(fields) >= 2 THEN fields[2] ELSE <<>>

\* ---------------------------------------------------------------- events

NoText == <<>>

\* one callback invocation: which callback, and its argument
\* (data is history: the bytes the recorder reported for the segment behind
\* an audio chunk)
Ev(type, text, flag, data) ==
  [type |-> type, text |-> text, flag |-> flag, data |-> data]

StatusEv(b)     == Ev("status", NoText, b, <<>>)
TranscriptEv(t) == Ev("transcript", t, FALSE, <<>>)
ChunkEv(t)      == Ev("chunk", t, FALSE, <<>>)
ErrorEv         == Ev("error", NoText, FALSE, <<>>)
\* onAudioChunkReady(base64, mime): the base64 digits travel in "text"
AudioEv(b64, data) == Ev("audio", b64, FALSE, data)

HasEv(evs, type) == \E i \in 1..Len(evs) : evs[i].type = type

CountEv(evs, type) == Cardinality({ i \in 1..Len(evs) : evs[i].type = type })

\* ----------------------------------------------------------------- state

VARIABLES
  platform,              \* the two capabilities the constructor inspects
  _mode,                 \* this._mode
  isListening,           \* this.isListening
  transcript,            \* this.transcript
  pendingChunk,          \* this.pendingChunk
  _silenceTimer,         \* TRUE while the timeout of this._silenceTimer is armed
  _chunkInterval,        \* TRUE while the interval of this._chunkInterval is armed
  leakedIntervals,       \* armed intervals whose handle the engine has overwritten
  _recognition,          \* this._recognition: 0 is null, else a recognizer id
  recState,              \* platform state of every recognizer constructed
  _restartAttempts,      \* this._restartAttempts
  _intentionallyStopped, \* this._intentionallyStopped
  _mediaRecorder,        \* this._mediaRecorder: 0 is null, else a recorder id
  _audioStream,          \* this._audioStream: 0 is null, else a stream id
  _recordingChunks,      \* this._recordingChunks
  recorderState,         \* MediaRecorder.state of every recorder
  trackLive,             \* per stream acquired: are its tracks still live
  nStreams,              \* microphone streams acquired so far
  pendingStarts,         \* start() calls suspended in getUserMedia
  stopTasks,             \* stop tasks the platform has queued and not yet run
  encoding,              \* bag of the onstop handlers suspended in _blobToBase64
  emitted,               \* callbacks invoked by the last task, in order
  ret,                   \* what the last task returned to its caller
  lastOp,                \* the last task
  joined,                \* history: finalized segment texts joined by single spaces
  anyFinal,              \* history: a finalized segment arrived since reset
  external,              \* history: appendTranscript was called since reset
  unflushed,             \* history: finalized texts since the last chunk, joined
  unflushedAny,          \* history: a finalized segment arrived since the last chunk
  isLive,                \* App.isLive
  apiKey,                \* a key is stored: AI.hasApiKey()
  requests,              \* transcribeAndSuggest calls in flight, by segment number
  nRelayed,              \* audio chunks the application has relayed so far
  helpRequested,         \* App.helpRequested
  helpInFlight,          \* generateImmediateHelp calls in flight
  resetDone              \* history: the application called reset() and not start() since

engineVars == << isListening, transcript, pendingChunk >>
timerVars  == << _silenceTimer, _chunkInterval, leakedIntervals >>
webVars    == << _recognition, recState, _restartAttempts, _intentionallyStopped >>
recVars    == << _mediaRecorder, _audioStream, _recordingChunks, recorderState,
                 trackLive, nStreams, pendingStarts, stopTasks, encoding >>
textHist   == << joined, anyFinal, unflushed, unflushedAny >>
appVars    == << isLive, apiKey, requests, nRelayed, helpRequested, helpInFlight,
                 resetDone >>
vars == << platform, _mode, engineVars, timerVars, webVars, recVars,
           emitted, ret, lastOp, external, textHist, appVars >>

RecogIds == 1..MaxRecog
RecIds   == 1..MaxRec

\* ------------------------------------------------------------ constructor

\* _detectMode testing the recording capability first (lines 36-41 swapped)
_detectModeRecorderFirst(p) ==
  IF p.recorder THEN "recorder"
  ELSE IF p.speech THEN "webspeech"
  ELSE "none"

\* Speech._detectMode
_detectMode(p) ==
  IF p.speech THEN "webspeech"
  ELSE IF p.recorder THEN "recorder"
  ELSE "none"

\* get supported
supported == _mode # "none"

Init ==
  /\ platform \in [speech : BOOLEAN, recorder : BOOLEAN]
  /\ _mode = _detectMode(platform)
  /\ isListening = FALSE
  /\ transcript = <<>>
  /\ pendingChunk = <<>>
  /\ _silenceTimer = FALSE
  /\ _chunkInterval = FALSE
  /\ leakedIntervals = 0
  /\ _recognition = 0
  /\ recState = [r \in RecogIds |-> "new"]
  /\ _restartAttempts = 0
  /\ _intentionallyStopped = FALSE
  /\ _mediaRecorder = 0
  /\ _audioStream = 0
  /\ _recordingChunks = <<>>
  /\ recorderState = [r \in RecIds |-> "none"]
  /\ trackLive = [r \in RecIds |-> FALSE]
  /\ nStreams = 0
  /\ pendingStarts = 0
  /\ stopTasks = 0
  /\ encoding = EmptyBag
  /\ emitted = <<>>
  /\ ret = "none"
  /\ lastOp = "init"
  /\ joined = <<>>
  /\ anyFinal = FALSE
  /\ external = FALSE
  /\ unflushed = <<>>
  /\ unflushedAny = FALSE
  /\ isLive = FALSE
  /\ apiKey = FALSE
  /\ requests = {}
  /\ nRelayed = 0
  /\ helpRequested = FALSE
  /\ helpInFlight = 0
  /\ resetDone = FALSE

\* getTranscript()
getTranscript == Trim(transcript)

\* getPendingChunk()
getPendingChunk == Trim(pendingChunk)

\* ------------------------------------------------- continuous recognition

\* FinalText without the isFinal test of line 131
RECURSIVE FinalTextWithInterim(_)
FinalTextWithInterim(results) ==
  IF results = <<>> THEN <<>>
  ELSE Head(results).transcript \o << SP >> \o FinalTextWithInterim(Tail(results))

\* onresult, lines 128-134: the finalized segments, each followed by a space
RECURSIVE FinalText(_)
FinalText(results) ==
  IF results = <<>> THEN <<>>
  ELSE (IF Head(results).isFinal THEN Head(results).transcript \o << SP >> ELSE <<>>)
         \o FinalText(Tail(results))

\* FlushEmits testing the pending chunk without trimming it (line 204)
FlushEmitsUntrimmedTest(p) == IF p # <<>> THEN << ChunkEv(Trim(p)) >> ELSE <<>>

\* FlushEmits handing over the pending chunk without trimming it (line 205)
FlushEmitsRaw(p) == IF Trim(p) # <<>> THEN << ChunkEv(p) >> ELSE <<>>

\* FlushLeaves without the assignment of line 206
FlushLeavesKept(p) == p

\* StopFlushLeaves without the assignment of line 185
StopFlushLeavesKept(p) == p

\* FlushEmits handing over only the first character of the pending text
FlushEmitsHead(p) ==
  IF Trim(p) # <<>> THEN << ChunkEv(<< Head(Trim(p)) >>) >> ELSE <<>>

\* _flushTextChunk: the callbacks it invokes
FlushEmits(p) == IF Trim(p) # <<>> THEN << ChunkEv(Trim(p)) >> ELSE <<>>

\* _flushTextChunk: the pending chunk it leaves
FlushLeaves(p) == IF Trim(p) # <<>> THEN <<>> ELSE p

\* StopFlushEmits handing over the pending chunk without trimming it (line 184)
StopFlushEmitsRaw(p) == IF Trim(p) # <<>> THEN << ChunkEv(p) >> ELSE <<>>

\* _stopWebSpeech, lines 183-186: the callbacks its own flush invokes
StopFlushEmits(p) == IF Trim(p) # <<>> THEN << ChunkEv(Trim(p)) >> ELSE <<>>

\* _stopWebSpeech, lines 183-186: the pending chunk its own flush leaves
StopFlushLeaves(p) == IF Trim(p) # <<>> THEN <<>> ELSE p

\* recognition.start() throws on a recognizer that is already started
StartThrows(state) == state \in { "running", "stopping" }

\* recognition.stop() on a running recognizer makes it wind down
AfterRecognitionStop(state) == IF state = "running" THEN "stopping" ELSE state

\* RestartWanted comparing with <= in line 150
RestartWantedInclusive(stopped, attempts) == ~stopped /\ attempts <= MaxRestarts

\* onend, line 150: is a restart attempted
RestartWanted(stopped, attempts) == ~stopped /\ attempts < MaxRestarts

\* AfterRestartThrew without the assignment of line 153
AfterRestartThrewKept(listening) == listening

\* onend, lines 152-155: isListening after a restart that threw
AfterRestartThrew(listening) == FALSE

\* AfterRestart with the restart taken for the end of the session
AfterRestartIdle(listening) == FALSE

\* onend, lines 151-156: isListening after a restart that did not throw
AfterRestart(listening) == listening

\* history of the text since the last chunk, after the callbacks evs ran
FlushHist(evs) ==
  IF HasEv(evs, "chunk")
  THEN unflushed' = <<>> /\ unflushedAny' = FALSE
  ELSE UNCHANGED << unflushed, unflushedAny >>

\* history of the finalized segments of one recognition event
RECURSIVE JoinFinals(_, _, _)
JoinFinals(acc, any, results) ==
  IF results = <<>> THEN << acc, any >>
  ELSE IF Head(results).isFinal
       THEN JoinFinals(IF any THEN acc \o << SP >> \o Head(results).transcript
                              ELSE Head(results).transcript,
                       TRUE, Tail(results))
       ELSE JoinFinals(acc, any, Tail(results))

\* start() in continuous mode: _startWebSpeech
StartWebSpeech ==
  /\ _mode = "webspeech"
  /\ ~isListening
  /\ \E r \in RecogIds :
       /\ recState[r] = "new"
       /\ \A q \in RecogIds : q < r => recState[q] # "new"
       /\ \E outcome \in { "ok", "constructThrows", "startThrows" } :
            CASE outcome = "constructThrows" ->
                   \* new SpeechRecognition() is outside the try: the call rejects
                   /\ ret' = "throw"
                   /\ emitted' = <<>>
                   /\ UNCHANGED << engineVars, timerVars, webVars >>
              [] outcome = "startThrows" ->
                   /\ _recognition' = r
                   /\ recState' = [recState EXCEPT ![r] = "idle"]
                   /\ _intentionallyStopped' = FALSE
                   /\ _restartAttempts' = 0
                   /\ emitted' = << ErrorEv >>
                   /\ ret' = "false"
                   /\ UNCHANGED << engineVars, timerVars >>
              [] outcome = "ok" ->
                   /\ _recognition' = r
                   /\ recState' = [recState EXCEPT ![r] = "running"]
                   /\ _intentionallyStopped' = FALSE
                   /\ _restartAttempts' = 0
                   /\ isListening' = TRUE
                   /\ emitted' = << StatusEv(TRUE) >>
                   /\ _chunkInterval' = TRUE
                   /\ _silenceTimer' = TRUE
                   /\ ret' = "true"
                   /\ UNCHANGED << transcript, pendingChunk, leakedIntervals >>
  /\ lastOp' = "start"
  /\ UNCHANGED << platform, _mode, recVars, external, textHist >>

\* SilenceTimerAfterResult with the timer restarted for finalized text only
SilenceTimerAfterFinalOnly(timer, finalText) ==
  IF finalText # <<>> THEN TRUE ELSE timer

\* onresult, line 127: the silence timer after _resetSilenceTimer()
SilenceTimerAfterResult(timer, finalText) == TRUE

\* the recognizers that can still deliver events: started and not yet ended
Active == { r \in RecogIds : recState[r] \in { "running", "stopping" } }

\* recognition.onresult, delivered by any recognizer that has not ended
OnResult ==
  /\ Active # {}
  /\ \E results \in ResultLists :
       LET finalText == FinalText(results)
           hist == JoinFinals(joined, anyFinal, results)
           histU == JoinFinals(unflushed, unflushedAny, results)
       IN  /\ Len(transcript) + Len(finalText) <= MaxLen
           /\ _silenceTimer' = SilenceTimerAfterResult(_silenceTimer, finalText)
           /\ IF finalText # <<>>
              THEN /\ transcript' = transcript \o finalText
                   /\ pendingChunk' = pendingChunk \o finalText
                   /\ emitted' = << TranscriptEv(transcript') >>
              ELSE /\ UNCHANGED << transcript, pendingChunk >>
                   /\ emitted' = <<>>
           /\ joined' = hist[1]
           /\ anyFinal' = hist[2]
           /\ unflushed' = histU[1]
           /\ unflushedAny' = histU[2]
  /\ ret' = "none"
  /\ lastOp' = "onresult"
  /\ UNCHANGED << platform, _mode, isListening, _chunkInterval, leakedIntervals,
                  webVars, recVars, external >>

\* onError(event.error): the recognizer's error kind travels in "text"
RecognizerErrorEv(kind) == Ev("error", << kind >>, FALSE, <<>>)

\* OnErrorEmits without the filters of lines 144-145
OnErrorEmitsAll(kind, stopped) == << RecognizerErrorEv(kind) >>

\* onerror, lines 144-146: the callbacks it invokes
OnErrorEmits(kind, stopped) ==
  IF kind = "no-speech" THEN <<>>
  ELSE IF kind = "aborted" /\ stopped THEN <<>>
  ELSE << RecognizerErrorEv(kind) >>

\* recognition.onerror, delivered by any recognizer that has not ended;
\* lastOp records the kind of the error event
OnError ==
  /\ Active # {}
  /\ \E kind \in ErrorKinds :
       /\ emitted' = OnErrorEmits(kind, _intentionallyStopped)
       /\ lastOp' = kind
  /\ ret' = "none"
  /\ UNCHANGED << platform, _mode, engineVars, timerVars, webVars, recVars,
                  external, textHist >>

\* recognition.onend: recognizer r has ended; the handler restarts this._recognition
OnEnd ==
  \E r \in RecogIds, fails \in BOOLEAN :
    LET ended == [recState EXCEPT ![r] = "idle"]
        throws == fails \/ StartThrows(ended[_recognition])
    IN  /\ r \in Active
        /\ IF RestartWanted(_intentionallyStopped, _restartAttempts)
           THEN /\ _restartAttempts' = _restartAttempts + 1
                /\ IF throws
                   THEN /\ recState' = ended
                        /\ isListening' = AfterRestartThrew(isListening)
                        /\ emitted' = << StatusEv(FALSE) >>
                   ELSE /\ recState' = [ended EXCEPT ![_recognition] = "running"]
                        /\ emitted' = <<>>
                        /\ isListening' = AfterRestart(isListening)
           ELSE /\ fails = FALSE
                /\ recState' = ended
                /\ isListening' = FALSE
                /\ emitted' = << StatusEv(FALSE) >>
                /\ UNCHANGED _restartAttempts
        /\ ret' = "none"
        /\ lastOp' = "onend"
        /\ UNCHANGED << platform, _mode, transcript, pendingChunk, timerVars,
                        _recognition, _intentionallyStopped, recVars, external,
                        textHist >>

\* the callback of _resetSilenceTimer's timeout
SilenceTimeout ==
  /\ _silenceTimer
  /\ _silenceTimer' = FALSE
  /\ emitted' = FlushEmits(pendingChunk)
  /\ pendingChunk' = FlushLeaves(pendingChunk)
  /\ FlushHist(emitted')
  /\ ret' = "none"
  /\ lastOp' = "silence"
  /\ UNCHANGED << platform, _mode, isListening, transcript, _chunkInterval,
                  leakedIntervals, webVars, recVars, external, joined, anyFinal >>

\* ----------------------------------------------------- segmented recording

\* the data the platform hands over when a recording stops: one
\* dataavailable event, or several for a recorder that reports in pieces
Bursts == UNION { [1..n -> Parts] : n \in 1..MaxParts }

\* ondataavailable, lines 227-231
RECURSIVE OnDataAvailable(_, _)
OnDataAvailable(chunks, burst) ==
  IF burst = <<>> THEN chunks
  ELSE OnDataAvailable(IF Len(Head(burst)) > 0 THEN Append(chunks, Head(burst))
                       ELSE chunks,
                       Tail(burst))

\* onstop, line 235: a segment without data ends the handler at once
SegmentEmpty(chunks) == Len(chunks) = 0

\* ChunksAfterBlob without the assignment of line 238
ChunksKept(chunks) == chunks

\* onstop, line 238: the accumulator after the blob was built
ChunksAfterBlob(chunks) == <<>>

\* RestartRecording without the isListening test of line 246
RestartRecordingAlways(listening, state) == state = "inactive"

\* onstop, line 246: is the recorder started again
RestartRecording(listening, state) == listening /\ state = "inactive"

\* start() in recording mode up to the await of getUserMedia
StartRecorder ==
  /\ _mode = "recorder"
  /\ ~isListening
  /\ pendingStarts < MaxPending
  /\ pendingStarts' = pendingStarts + 1
  /\ emitted' = <<>>
  /\ ret' = "pending"
  /\ lastOp' = "start"
  /\ UNCHANGED << platform, _mode, engineVars, timerVars, webVars, _mediaRecorder,
                  _audioStream, _recordingChunks, recorderState, trackLive, nStreams,
                  stopTasks, encoding, external, textHist >>

\* getUserMedia rejects: lines 215-218
Deny ==
  /\ pendingStarts > 0
  /\ pendingStarts' = pendingStarts - 1
  /\ emitted' = << ErrorEv >>
  /\ ret' = "false"
  /\ lastOp' = "deny"
  /\ UNCHANGED << platform, _mode, engineVars, timerVars, webVars, _mediaRecorder,
                  _audioStream, _recordingChunks, recorderState, trackLive, nStreams,
                  stopTasks, encoding, external, textHist >>

\* getUserMedia resolves: the rest of _startRecorder, lines 214 and 220-262
Grant ==
  /\ pendingStarts > 0
  /\ nStreams < MaxRec
  /\ LET s == nStreams + 1
     IN  /\ nStreams' = s
         /\ pendingStarts' = pendingStarts - 1
         /\ _audioStream' = s
         /\ trackLive' = [trackLive EXCEPT ![s] = TRUE]
         /\ \E outcome \in { "ok", "constructThrows", "startThrows" } :
              CASE outcome = "constructThrows" ->
                     /\ ret' = "throw"
                     /\ emitted' = <<>>
                     /\ UNCHANGED << engineVars, timerVars, _mediaRecorder,
                                     _recordingChunks, recorderState >>
                [] outcome = "startThrows" ->
                     /\ _mediaRecorder' = s
                     /\ recorderState' = [recorderState EXCEPT ![s] = "inactive"]
                     /\ _recordingChunks' = <<>>
                     /\ ret' = "throw"
                     /\ emitted' = <<>>
                     /\ UNCHANGED << engineVars, timerVars >>
                [] outcome = "ok" ->
                     /\ _mediaRecorder' = s
                     /\ recorderState' = [recorderState EXCEPT ![s] = "recording"]
                     /\ _recordingChunks' = <<>>
                     /\ isListening' = TRUE
                     /\ emitted' = << StatusEv(TRUE) >>
                     /\ leakedIntervals' =
                          IF _chunkInterval THEN leakedIntervals + 1 ELSE leakedIntervals
                     /\ _chunkInterval' = TRUE
                     /\ ret' = "true"
                     /\ UNCHANGED << transcript, pendingChunk, _silenceTimer >>
  /\ lastOp' = "grant"
  /\ UNCHANGED << platform, _mode, webVars, stopTasks, encoding, external, textHist >>

\* the task mediaRecorder.stop() queued: the recorder's dataavailable events,
\* then its stop event; onstop runs up to the await of _blobToBase64
StopTask ==
  /\ stopTasks > 0
  /\ \E burst \in Bursts :
       LET chunks == OnDataAvailable(_recordingChunks, burst)
       IN  IF SegmentEmpty(chunks)
           THEN /\ _recordingChunks' = chunks
                /\ UNCHANGED encoding
           ELSE /\ encoding' = encoding (+)
                                  SetToBag({ [blob |-> Concat(chunks),
                                              data |-> Reported(burst)] })
                /\ _recordingChunks' = ChunksAfterBlob(chunks)
  /\ stopTasks' = stopTasks - 1
  /\ emitted' = <<>>
  /\ ret' = "none"
  /\ lastOp' = "onstop"
  /\ UNCHANGED << platform, _mode, engineVars, timerVars, webVars, _mediaRecorder,
                  _audioStream, recorderState, trackLive, nStreams, pendingStarts,
                  external, textHist >>

\* the rest of onstop once _blobToBase64 has resolved, lines 242-248
Encoded ==
  \E e \in BagToSet(encoding) :
    /\ encoding' = encoding (-) SetToBag({ e })
    /\ emitted' = << AudioEv(_blobToBase64(e.blob), e.data) >>
    /\ recorderState' =
         IF RestartRecording(isListening, recorderState[_mediaRecorder])
         THEN [recorderState EXCEPT ![_mediaRecorder] = "recording"]
         ELSE recorderState
    /\ ret' = "none"
    /\ lastOp' = "encoded"
    /\ UNCHANGED << platform, _mode, engineVars, timerVars, webVars, _mediaRecorder,
                    _audioStream, _recordingChunks, trackLive, nStreams, pendingStarts,
                    stopTasks, external, textHist >>

\* the recorder after "if (state === 'recording') stop()" and the task this queues
RecorderStopped ==
  IF _mediaRecorder # 0 /\ recorderState[_mediaRecorder] = "recording"
  THEN /\ recorderState' = [recorderState EXCEPT ![_mediaRecorder] = "inactive"]
       /\ stopTasks' = stopTasks + 1
  ELSE UNCHANGED << recorderState, stopTasks >>

\* ------------------------------------------------------------ chunk timer

\* the callback of the interval armed by _startTextChunkInterval (line 198)
\* or by _startRecorder (line 256)
ChunkTick ==
  /\ _chunkInterval \/ leakedIntervals > 0
  /\ IF _mode = "webspeech"
     THEN /\ emitted' = FlushEmits(pendingChunk)
          /\ pendingChunk' = FlushLeaves(pendingChunk)
          /\ FlushHist(emitted')
          /\ UNCHANGED << recorderState, stopTasks >>
     ELSE /\ RecorderStopped
          /\ emitted' = <<>>
          /\ UNCHANGED << pendingChunk, unflushed, unflushedAny >>
  /\ ret' = "none"
  /\ lastOp' = "tick"
  /\ UNCHANGED << platform, _mode, isListening, transcript, timerVars, webVars,
                  _mediaRecorder, _audioStream, _recordingChunks, trackLive, nStreams,
                  pendingStarts, encoding, external, joined, anyFinal >>

\* ---------------------------------------------------------------- facade

\* AttemptsAfterStartListening clearing the counter as _startWebSpeech does
\* (line 119), although line 54 has returned
AttemptsAfterStartListeningCleared(attempts) == 0

\* start() while listening, line 54: the restart counter it leaves
AttemptsAfterStartListening(attempts) == attempts

\* start() while listening: line 54
StartListening ==
  /\ isListening
  /\ emitted' = <<>>
  /\ ret' = "true"
  /\ lastOp' = "start"
  /\ _restartAttempts' = AttemptsAfterStartListening(_restartAttempts)
  /\ UNCHANGED << platform, _mode, engineVars, timerVars, _recognition, recState,
                  _intentionallyStopped, recVars, external, textHist >>

\* UnsupportedEmits without the onError call of line 61
UnsupportedEmitsNothing(mode) == <<>>

\* start(), line 61: the callbacks of the branch taken for no capture mode
UnsupportedEmits(mode) == IF mode = "none" THEN << ErrorEv >> ELSE <<>>

\* start() with no capture mode: lines 60-63
StartUnsupported ==
  /\ _mode = "none"
  /\ ~isListening
  /\ emitted' = UnsupportedEmits(_mode)
  /\ ret' = "false"
  /\ lastOp' = "start"
  /\ UNCHANGED << platform, _mode, engineVars, timerVars, webVars, recVars, external,
                  textHist >>

\* ResetTranscript without the assignment of line 79
ResetTranscriptKept(t) == t

\* reset(), lines 79-80: the buffers it leaves
ResetTranscript(t) == <<>>
ResetPendingChunk(p) == <<>>

\* _clearTimers: the armed state of a handle it was applied to
Cleared(timer) == FALSE

\* _stopRecorder, lines 272-275: the streams' tracks after the release
TracksAfterStop(live, stream) ==
  IF stream # 0 THEN [live EXCEPT ![stream] = FALSE] ELSE live

\* stop(), and reset() which calls it first; lastOp tells a stop() of a
\* listening engine ("stop") from one of an engine not listening ("stopIdle")
DoStop(op) ==
  /\ IF _mode = "webspeech"
     THEN \* _stopWebSpeech
          /\ _intentionallyStopped' = TRUE
          /\ recState' = IF _recognition # 0
                         THEN [recState EXCEPT ![_recognition] = AfterRecognitionStop(@)]
                         ELSE recState
          /\ emitted' = StopFlushEmits(pendingChunk) \o << StatusEv(FALSE) >>
          /\ pendingChunk' = IF op = "reset"
                             THEN ResetPendingChunk(StopFlushLeaves(pendingChunk))
                             ELSE StopFlushLeaves(pendingChunk)
          /\ UNCHANGED << recorderState, stopTasks, trackLive, _audioStream >>
     ELSE IF _mode = "recorder"
     THEN \* _stopRecorder
          /\ RecorderStopped
          /\ trackLive' = TracksAfterStop(trackLive, _audioStream)
          /\ _audioStream' = 0
          /\ emitted' = << StatusEv(FALSE) >>
          /\ pendingChunk' = IF op = "reset" THEN ResetPendingChunk(pendingChunk)
                             ELSE pendingChunk
          /\ UNCHANGED << _intentionallyStopped, recState >>
     ELSE /\ emitted' = << StatusEv(FALSE) >>
          /\ pendingChunk' = IF op = "reset" THEN ResetPendingChunk(pendingChunk)
                             ELSE pendingChunk
          /\ UNCHANGED << _intentionallyStopped, recState, recorderState, stopTasks,
                          trackLive, _audioStream >>
  /\ _silenceTimer' = Cleared(_silenceTimer)
  /\ _chunkInterval' = Cleared(_chunkInterval)
  /\ isListening' = FALSE
  /\ transcript' = IF op = "reset" THEN ResetTranscript(transcript) ELSE transcript
  /\ IF op = "reset"
     THEN /\ joined' = <<>>
          /\ anyFinal' = FALSE
          /\ external' = FALSE
          /\ unflushed' = <<>>
          /\ unflushedAny' = FALSE
     ELSE /\ FlushHist(emitted')
          /\ UNCHANGED << joined, anyFinal, external >>
  /\ ret' = "none"
  /\ lastOp' = IF op = "stop" /\ ~isListening THEN "stopIdle" ELSE op
  /\ UNCHANGED << platform, _mode, leakedIntervals, _recognition, _restartAttempts,
                  _mediaRecorder, _recordingChunks, nStreams, pendingStarts, encoding >>

Stop == DoStop("stop")

Reset == DoStop("reset")

\* forceFlush()
ForceFlush ==
  /\ IF _mode = "webspeech"
     THEN /\ emitted' = FlushEmits(pendingChunk)
          /\ pendingChunk' = FlushLeaves(pendingChunk)
          /\ FlushHist(emitted')
          /\ UNCHANGED << recorderState, stopTasks >>
     ELSE IF _mode = "recorder"
     THEN /\ RecorderStopped
          /\ emitted' = <<>>
          /\ UNCHANGED << pendingChunk, unflushed, unflushedAny >>
     ELSE /\ emitted' = <<>>
          /\ UNCHANGED << pendingChunk, unflushed, unflushedAny, recorderState, stopTasks >>
  /\ ret' = "none"
  /\ lastOp' = "forceFlush"
  /\ UNCHANGED << platform, _mode, isListening, transcript, timerVars, webVars,
                  _mediaRecorder, _audioStream, _recordingChunks, trackLive, nStreams,
                  pendingStarts, encoding, external, joined, anyFinal >>

\* Appended assigning the text instead of appending it (line 113)
AppendedReplacing(t, text) == text \o << SP >>

\* Appended without the space that line 113 adds after the text
AppendedNoSpace(t, text) == t \o text

\* appendTranscript, line 113: the transcript after "+= text + ' '"
Appended(t, text) == t \o text \o << SP >>

\* _flushTextChunk, lines 205-206: the pending chunk a chunk-ready subscriber
\* finds while it runs (the callback is invoked before the assignment)
PendingDuringDelivery(p) == p

\* forceFlush() with a chunk-ready subscriber that calls forceFlush() from
\* inside its handler, once: the nested _flushTextChunk runs to its end
\* before the outer one goes on to line 206
ForceFlushReentrant ==
  /\ _mode = "webspeech"
  /\ LET during == PendingDuringDelivery(pendingChunk)
     IN  IF Trim(pendingChunk) # <<>>
         THEN /\ emitted' = << ChunkEv(Trim(pendingChunk)) >> \o FlushEmits(during)
              /\ pendingChunk' = <<>>
         ELSE /\ emitted' = <<>>
              /\ UNCHANGED pendingChunk
  /\ FlushHist(emitted')
  /\ ret' = "none"
  /\ lastOp' = "forceFlushReentrant"
  /\ UNCHANGED << platform, _mode, isListening, transcript, timerVars, webVars,
                  recVars, external, joined, anyFinal >>

\* appendTranscript(text)
AppendTranscriptOf(text) ==
  /\ Len(transcript) + Len(text) + 1 <= MaxLen
  /\ transcript' = Appended(transcript, text)
  /\ emitted' = << TranscriptEv(transcript') >>
  /\ external' = TRUE
  /\ ret' = "none"
  /\ lastOp' = "appendTranscript"
  /\ UNCHANGED << platform, _mode, isListening, pendingChunk, timerVars, webVars,
                  recVars, textHist >>

\* appendTranscript called by a client of the engine
AppendTranscript == \E text \in AppendTexts : AppendTranscriptOf(text)

\* ---------------------------------------------------------- specification

Next ==
  \/ StartListening /\ UNCHANGED appVars
  \/ StartUnsupported /\ UNCHANGED appVars
  \/ StartWebSpeech /\ UNCHANGED appVars
  \/ StartRecorder /\ UNCHANGED appVars
  \/ Grant /\ UNCHANGED appVars
  \/ Deny /\ UNCHANGED appVars
  \/ Stop /\ UNCHANGED appVars
  \/ Reset /\ UNCHANGED appVars
  \/ ForceFlush /\ UNCHANGED appVars
  \/ AppendTranscript /\ UNCHANGED appVars
  \/ OnResult /\ UNCHANGED appVars
  \/ OnError /\ UNCHANGED appVars
  \/ OnEnd /\ UNCHANGED appVars
  \/ SilenceTimeout /\ UNCHANGED appVars
  \/ ChunkTick /\ UNCHANGED appVars
  \/ StopTask /\ UNCHANGED appVars
  \/ Encoded /\ UNCHANGED appVars

Spec == Init /\ [][Next]_vars

\* The engine in continuous-recognition mode (the engine reads the platform
\* only through _mode, so one of the two platforms with a recognizer stands
\* for both)
InitWeb == Init /\ platform = [speech |-> TRUE, recorder |-> FALSE]

NextWeb ==
  \/ StartListening /\ UNCHANGED appVars
  \/ StartWebSpeech /\ UNCHANGED appVars
  \/ Stop /\ UNCHANGED appVars
  \/ Reset /\ UNCHANGED appVars
  \/ ForceFlush /\ UNCHANGED appVars
  \/ AppendTranscript /\ UNCHANGED appVars
  \/ OnResult /\ UNCHANGED appVars
  \/ OnError /\ UNCHANGED appVars
  \/ OnEnd /\ UNCHANGED appVars
  \/ SilenceTimeout /\ UNCHANGED appVars
  \/ ChunkTick /\ UNCHANGED appVars

SpecWeb == InitWeb /\ [][NextWeb]_vars

\* The engine in continuous-recognition mode with a chunk-ready subscriber
\* that may call back into the engine
NextReentrant ==
  \/ StartListening /\ UNCHANGED appVars
  \/ StartWebSpeech /\ UNCHANGED appVars
  \/ Stop /\ UNCHANGED appVars
  \/ Reset /\ UNCHANGED appVars
  \/ ForceFlush /\ UNCHANGED appVars
  \/ ForceFlushReentrant /\ UNCHANGED appVars
  \/ AppendTranscript /\ UNCHANGED appVars
  \/ OnResult /\ UNCHANGED appVars
  \/ OnError /\ UNCHANGED appVars
  \/ OnEnd /\ UNCHANGED appVars
  \/ SilenceTimeout /\ UNCHANGED appVars
  \/ ChunkTick /\ UNCHANGED appVars

SpecReentrant == InitWeb /\ [][NextReentrant]_vars

\* The engine in segmented-recording mode
InitRec == Init /\ _mode = "recorder"

NextRec ==
  \/ StartListening /\ UNCHANGED appVars
  \/ StartRecorder /\ UNCHANGED appVars
  \/ Grant /\ UNCHANGED appVars
  \/ Deny /\ UNCHANGED appVars
  \/ Stop /\ UNCHANGED appVars
  \/ Reset /\ UNCHANGED appVars
  \/ ForceFlush /\ UNCHANGED appVars
  \/ AppendTranscript /\ UNCHANGED appVars
  \/ ChunkTick /\ UNCHANGED appVars
  \/ StopTask /\ UNCHANGED appVars
  \/ Encoded /\ UNCHANGED appVars

SpecRec == InitRec /\ [][NextRec]_vars

\* ----------------------------------------------------------- application

\* the text the transcription service returns for the n-th relayed segment:
\* one letter per segment, so that the transcript shows the order of appends
SegLetters == << "a", "b", "d", "e" >>
SegTranscript(n) == << SegLetters[n] >>

\* what a transcribeAndSuggest call can come to: a result with text, a
\* result with transcript "", a rejection
TranscribeOutcomes == { "text", "empty", "error" }

\* what a generateImmediateHelp call can come to
HelpOutcomes == { "ok", "fail" }

\* onAudioChunkReady, line 1101: is the chunk relayed
Relays(key, live) == key /\ live

\* renderLessonLive / renderTalkLive followed by startLiveCommon: isLive is
\* set and speech.start() is called
AppStartLive ==
  /\ ~isLive
  /\ isLive' = TRUE
  /\ \/ StartRecorder
     \/ StartListening
  /\ resetDone' = FALSE
  /\ UNCHANGED << apiKey, requests, nRelayed, helpRequested, helpInFlight >>

\* stopLive(), from the stop button or from navigate()
AppStopLive ==
  /\ isLive
  /\ isLive' = FALSE
  /\ Stop
  /\ UNCHANGED << apiKey, requests, nRelayed, helpRequested, helpInFlight, resetDone >>

\* the done button of the summary screen: speech.reset()
AppDone ==
  /\ ~isLive
  /\ Reset
  /\ resetDone' = TRUE
  /\ UNCHANGED << isLive, apiKey, requests, nRelayed, helpRequested, helpInFlight >>

\* the save button of the settings screen with a non-empty key
SaveKey ==
  /\ ~isLive
  /\ apiKey' = TRUE
  /\ emitted' = <<>>
  /\ ret' = "none"
  /\ lastOp' = "saveKey"
  /\ UNCHANGED << platform, _mode, engineVars, timerVars, webVars, recVars, external,
                  textHist, isLive, requests, nRelayed, helpRequested, helpInFlight,
                  resetDone >>

\* the rest of the recorder's onstop with the application's subscriber: the
\* engine calls onAudioChunkReady, which runs up to the await of
\* transcribeAndSuggest
AppEncoded ==
  /\ Encoded
  /\ IF Relays(apiKey, isLive)
     THEN /\ nRelayed < MaxReq
          /\ nRelayed' = nRelayed + 1
          /\ requests' = requests \cup { nRelayed + 1 }
     ELSE UNCHANGED << requests, nRelayed >>
  /\ UNCHANGED << isLive, apiKey, helpRequested, helpInFlight, resetDone >>

\* onAudioChunkReady after the await of transcribeAndSuggest, lines 1115-1123
AppTranscribed ==
  \E n \in requests, outcome \in TranscribeOutcomes :
    /\ requests' = requests \ { n }
    /\ IF outcome = "text"
       THEN AppendTranscriptOf(SegTranscript(n))
       ELSE /\ emitted' = <<>>
            /\ ret' = "none"
            /\ lastOp' = "transcribed"
            /\ UNCHANGED << platform, _mode, engineVars, timerVars, webVars, recVars,
                            external, textHist >>
    /\ UNCHANGED << isLive, apiKey, nRelayed, helpRequested, helpInFlight, resetDone >>

\* the click handler of the help button up to the await of
\* generateImmediateHelp, lines 1025-1046
HelpClick ==
  /\ isLive
  /\ IF helpRequested
     THEN UNCHANGED << helpRequested, helpInFlight >>
     ELSE /\ helpRequested' = TRUE
          /\ helpInFlight' = helpInFlight + 1
  /\ emitted' = <<>>
  /\ ret' = "none"
  /\ lastOp' = "help"
  /\ UNCHANGED << platform, _mode, engineVars, timerVars, webVars, recVars, external,
                  textHist, isLive, apiKey, requests, nRelayed, resetDone >>

\* HelpRequestedAfter keeping the guard when the request failed
HelpRequestedAfterSuccessOnly(requested, outcome) ==
  IF outcome = "ok" THEN FALSE ELSE requested

\* the help handler after its try/catch, line 1053
HelpRequestedAfter(requested, outcome) == FALSE

\* the rest of the help handler once generateImmediateHelp has settled,
\* lines 1047-1053
HelpDone ==
  /\ helpInFlight > 0
  /\ \E outcome \in HelpOutcomes :
       /\ helpRequested' = HelpRequestedAfter(helpRequested, outcome)
       /\ lastOp' = IF outcome = "ok" THEN "helpDone" ELSE "helpFailed"
  /\ helpInFlight' = helpInFlight - 1
  /\ emitted' = <<>>
  /\ ret' = "none"
  /\ UNCHANGED << platform, _mode, engineVars, timerVars, webVars, recVars, external,
                  textHist, isLive, apiKey, requests, nRelayed, resetDone >>

\* The application driving the engine in segmented-recording mode
InitApp == Init /\ _mode = "recorder"

NextApp ==
  \/ AppStartLive
  \/ AppStopLive
  \/ AppDone
  \/ SaveKey
  \/ Grant /\ UNCHANGED appVars
  \/ Deny /\ UNCHANGED appVars
  \/ ChunkTick /\ UNCHANGED appVars
  \/ StopTask /\ UNCHANGED appVars
  \/ AppEncoded
  \/ AppTranscribed
  \/ HelpClick
  \/ HelpDone

SpecApp == InitApp /\ [][NextApp]_vars

\* the tasks that run the flush of the pending chunk
FlushOps == { "silence", "tick", "forceFlush", "stop", "stopIdle" }

\* ------------------------------------------------------------------ C1

\* C1: a chunk-ready event is emitted only when a finalized result arrived
\* since the previous chunk-ready event, and it carries only the text
\* finalized since then: after a flush has delivered the pending chunk, a
\* silence timeout, periodic tick, forceFlush() or stop() that comes before
\* the next finalized result emits no chunk.
C1_NoDoubleDelivery ==
  [][ \A i \in 1..Len(emitted') :
        emitted'[i].type = "chunk" =>
          /\ unflushedAny
          /\ emitted'[i].text = Trim(unflushed) ]_vars

\* a flush trigger found the chunk already delivered and emitted nothing
C1_Witness ==
  /\ lastOp \in FlushOps
  /\ anyFinal
  /\ ~unflushedAny
  /\ Trim(transcript) # <<>>
  /\ ~HasEv(emitted, "chunk")

\* ------------------------------------------------------------------ C2

\* C2: every chunk-ready event carries text that is non-empty and trimmed; a
\* flush of an empty or whitespace-only pending chunk therefore emits none.
C2_ChunkNonEmptyTrimmed ==
  \A i \in 1..Len(emitted) :
    emitted[i].type = "chunk" =>
      /\ emitted[i].text # <<>>
      /\ Head(emitted[i].text) # SP
      /\ emitted[i].text[Len(emitted[i].text)] # SP

\* a flush ran on a whitespace-only pending chunk and emitted nothing
C2_Witness ==
  /\ lastOp \in FlushOps
  /\ pendingChunk # <<>>
  /\ \A i \in 1..Len(pendingChunk) : pendingChunk[i] = SP
  /\ ~HasEv(emitted, "chunk")

\* ------------------------------------------------------------------ C3

\* C3: the restart counter never exceeds the bound of 10, and a recognizer
\* end that is not intentional and finds the counter at the bound starts no
\* recognizer, sets isListening to false and fires only the status event
\* with false (no error event).
C3_RestartBound ==
  /\ [](_restartAttempts <= MaxRestarts)
  /\ [][ (lastOp' = "onend" /\ ~_intentionallyStopped
            /\ _restartAttempts = MaxRestarts) =>
          /\ isListening' = FALSE
          /\ emitted' = << StatusEv(FALSE) >>
          /\ _restartAttempts' = _restartAttempts
          /\ \A r \in RecogIds :
               recState'[r] = "running" => recState[r] = "running" ]_vars

\* the recognizer ended with the ten restarts used up: the engine is idle
C3_Witness ==
  /\ lastOp = "onend"
  /\ _restartAttempts = MaxRestarts
  /\ ~_intentionallyStopped
  /\ ~isListening
  /\ emitted = << StatusEv(FALSE) >>
  /\ recState[_recognition] = "idle"

\* ------------------------------------------------------------------ C4

\* C4: once stop() has returned (the intentional-stop flag is set and no
\* start() has cleared it), a recognition result event changes neither the
\* transcript nor the pending chunk, emits nothing and arms no timer.
C4_LateResultIgnored ==
  [][ (lastOp' = "onresult" /\ _intentionallyStopped /\ ~isListening) =>
        /\ transcript' = transcript
        /\ pendingChunk' = pendingChunk
        /\ emitted' = <<>>
        /\ _silenceTimer' = _silenceTimer ]_vars

\* ------------------------------------------------------------------ C5

\* C5: when stop() has returned, no periodic timer and no silence timer is
\* armed and, in recording mode, the engine holds no stream and no acquired
\* stream has a live track.
C5_StopReleasesAll ==
  lastOp \in { "stop", "stopIdle" } =>
    /\ ~_silenceTimer
    /\ ~_chunkInterval
    /\ leakedIntervals = 0
    /\ _audioStream = 0
    /\ \A s \in RecIds : ~trackLive[s]

\* ------------------------------------------------------------------ C6

\* events and results that a stop() without effect must not produce
QuietStop(evs, r) ==
  /\ ~HasEv(evs, "chunk")
  /\ ~HasEv(evs, "audio")
  /\ ~HasEv(evs, "error")
  /\ r # "throw"

\* no start() has left a trace on the engine
NeverStarted == _recognition = 0 /\ nStreams = 0 /\ pendingStarts = 0

\* C6 as claimed covers every engine that is not listening, among them the
\* engine that stopped listening by itself (no stop() since the last start()):
\* stop() on it emits no chunk, audio chunk or error, raises nothing, and
\* leaves the transcript, the pending chunk and isListening as they were.
C6_IdleStopNoOp ==
  [][ (lastOp' = "stopIdle" /\ ~_intentionallyStopped) =>
        /\ QuietStop(emitted', ret')
        /\ UNCHANGED << transcript, pendingChunk, isListening >> ]_vars

\* C6 as amended: stop() that directly follows a stop() or reset(), or that
\* is called on an engine never started, emits no chunk, audio chunk or
\* error, raises nothing, and leaves the transcript, the pending chunk and
\* isListening as they were.
C6_RepeatedStopNoOp ==
  [][ (lastOp' = "stopIdle"
         /\ (lastOp \in { "stop", "stopIdle", "reset" } \/ NeverStarted)) =>
        /\ QuietStop(emitted', ret')
        /\ UNCHANGED << transcript, pendingChunk, isListening >> ]_vars

\* stop() ran on an engine that had been started and was no longer listening,
\* and fired the status event only
C6_Witness ==
  /\ lastOp = "stopIdle"
  /\ ~NeverStarted
  /\ transcript # <<>>
  /\ emitted = << StatusEv(FALSE) >>

\* ------------------------------------------------------------------ C7

\* C7: when reset() has returned, getTranscript() and getPendingChunk() are
\* the empty string and isListening is false.
C7_ResetClears ==
  lastOp = "reset" =>
    /\ getTranscript = <<>>
    /\ getPendingChunk = <<>>
    /\ ~isListening

\* reset() flushed a pending chunk, hence ran on an engine holding text
C7_Witness ==
  /\ lastOp = "reset"
  /\ HasEv(emitted, "chunk")
  /\ transcript = <<>>

\* ------------------------------------------------------------------ C8

\* C8 as claimed: without reset and external append, getTranscript() is the
\* finalized segment texts joined by single spaces.
C8_TranscriptIsJoin ==
  ~external => getTranscript = joined

\* C8 as amended: without reset and external append, getTranscript() is the
\* finalized segment texts joined by single spaces, with the whitespace at
\* both ends of the whole removed.
C8_TranscriptIsTrimmedJoin ==
  ~external => getTranscript = Trim(joined)

\* two finalized segments "a" arrived, in one event or two, interim ones aside
C8_Witness ==
  /\ lastOp = "onresult"
  /\ ~external
  /\ joined = << "a", SP, "a" >>
  /\ getTranscript = joined

\* ------------------------------------------------------------------ C9

\* C9: when the silence timer or the periodic timer fires while the engine is
\* listening and the pending chunk has text other than whitespace, exactly
\* one chunk-ready event is emitted, and no other event; it carries the
\* trimmed text finalized since the previous chunk, and the pending chunk is
\* empty afterwards.
C9_TimerFlush ==
  [][ (lastOp' \in { "silence", "tick" } /\ isListening
         /\ getPendingChunk # <<>>) =>
        /\ emitted' = << ChunkEv(Trim(unflushed)) >>
        /\ pendingChunk' = <<>> ]_vars

\* finalized "a", then a silence timeout with the periodic timer still armed
C9_Witness ==
  /\ lastOp = "silence"
  /\ isListening
  /\ _chunkInterval
  /\ emitted = << ChunkEv(<< "a" >>) >>
  /\ pendingChunk = <<>>

\* ----------------------------------------------------------------- C10

\* C10: every audio-chunk event decodes to the bytes of the sub-buffers its
\* recorder reported for the segment just closed, in arrival order (as many
\* bytes as their sizes add up to); a segment with no data starts no encoding
\* and emits no event.
C10_AudioChunkIsSegment ==
  /\ \A i \in 1..Len(emitted) :
       emitted[i].type = "audio" =>
         /\ emitted[i].data # <<>>
         /\ Base64Decode(emitted[i].text) = emitted[i].data
  /\ \A e \in BagToSet(encoding) :
       /\ e.data # <<>>
       /\ e.blob = e.data

\* a segment of two sub-buffers of 1 and 2 bytes was delivered as 3 bytes
C10_Witness ==
  /\ lastOp = "encoded"
  /\ emitted # <<>>
  /\ emitted[1].type = "audio"
  /\ emitted[1].data = << 65, 66, 67 >>
  /\ Len(Base64Decode(emitted[1].text)) = 1 + 2

\* ------------------------------------------------------------------ C11

\* C11: in segmented-recording mode, once the stop task of a segment boundary
\* has run while the engine is listening and no encoding of a segment is
\* still outstanding, the current recorder is recording again, whether or not
\* the closed segment held data.
C11_SegmentRestarts ==
  [][ (lastOp' = "onstop" /\ _mode = "recorder" /\ isListening'
         /\ stopTasks' = 0 /\ encoding' = EmptyBag) =>
        recorderState'[_mediaRecorder'] = "recording" ]_vars

\* ------------------------------------------------------------------ C12

\* the capture drivers at work: recognizers that are running and recorders
\* that are recording
Drivers ==
  { << "recognizer", r >> : r \in { q \in RecogIds : recState[q] = "running" } }
    \cup { << "recorder", m >> : m \in { q \in RecIds : recorderState[q] = "recording" } }

\* C12: in every reachable state where isListening is true, exactly one
\* capture driver is active: never zero and never two.
C12_OneDriver == isListening => Cardinality(Drivers) = 1

\* the same outside the segment turnover of the recorder: no stop task is
\* queued and no encoding is outstanding
C12_OneDriverSettled ==
  (isListening /\ stopTasks = 0 /\ encoding = EmptyBag) => Cardinality(Drivers) = 1

\* ------------------------------------------------------------------ C13

IsPrefix(s, t) == Len(s) <= Len(t) /\ SubSeq(t, 1, Len(s)) = s

\* C13: the transcript never shrinks except on reset(): across every
\* operation and event other than reset(), the previous transcript is a
\* prefix of the new one.
C13_TranscriptGrows ==
  [][ lastOp' # "reset" => IsPrefix(transcript, transcript') ]_vars

\* appendTranscript("c") extended a transcript that already held "a "
C13_Witness ==
  /\ lastOp = "appendTranscript"
  /\ transcript = << "a", SP, "c", SP >>

\* ------------------------------------------------------------------ C14

\* C14: when start() in recording mode fails after the microphone was
\* granted (constructing or launching the recorder throws), no exception
\* escapes start(): it yields false, isListening is false and the stream that
\* was acquired is released.
C14_FailedStartReleases ==
  (lastOp = "grant" /\ ret # "true") =>
    /\ ret = "false"
    /\ ~isListening
    /\ ~trackLive[nStreams]

\* ------------------------------------------------------------------ C15

\* C15: when constructing or launching the recognizer throws in start() in
\* continuous mode, start() returns false, exactly one error event and
\* nothing else is emitted, isListening is false and no timer is armed.
C15_FailedStartReported ==
  (lastOp = "start" /\ _mode = "webspeech" /\ ret # "true") =>
    /\ ret = "false"
    /\ emitted = << ErrorEv >>
    /\ ~isListening
    /\ ~_silenceTimer
    /\ ~_chunkInterval

\* ------------------------------------------------------------------ C16

\* C16: when the microphone request is rejected in recording mode, start()
\* returns false, one error event is emitted, isListening is false, and the
\* engine holds no stream, no recorder at work and no armed timer.
C16_DeniedHoldsNothing ==
  lastOp = "deny" =>
    /\ ret = "false"
    /\ emitted = << ErrorEv >>
    /\ ~isListening
    /\ _audioStream = 0
    /\ \A m \in RecIds : recorderState[m] # "recording"
    /\ ~_chunkInterval
    /\ leakedIntervals = 0

\* ------------------------------------------------------------------ C17

\* C17: in unsupported mode the engine never listens and never emits a status
\* event with true, and every start() returns false and emits one error
\* event and nothing else, after any sequence of operations.
C17_UnsupportedNeverStarts ==
  _mode = "none" =>
    /\ ~isListening
    /\ \A i \in 1..Len(emitted) : emitted[i] # StatusEv(TRUE)
    /\ lastOp = "start" => (ret = "false" /\ emitted = << ErrorEv >>)

\* start() in unsupported mode after appendTranscript() and other operations
C17_Witness ==
  /\ _mode = "none"
  /\ lastOp = "start"
  /\ transcript # <<>>
  /\ ret = "false"

\* ------------------------------------------------------------------ C18

\* C18: the mode is a function of the two platform capabilities only:
\* continuous recognition when the recognizer capability is present (with or
\* without the recording capability), segmented recording when only the
\* recording capability is present, unsupported otherwise; supported is true
\* exactly when the mode is not unsupported.
C18_ModeDetection ==
  /\ platform.speech => _mode = "webspeech"
  /\ (~platform.speech /\ platform.recorder) => _mode = "recorder"
  /\ (~platform.speech /\ ~platform.recorder) => _mode = "none"
  /\ supported <=> _mode \in { "webspeech", "recorder" }

\* an engine built with both capabilities works in continuous mode
C18_Witness ==
  /\ platform = [speech |-> TRUE, recorder |-> TRUE]
  /\ _mode = "webspeech"
  /\ supported
  /\ isListening
  /\ recState[1] = "running"

\* ------------------------------------------------------------------ C19

\* the step is the end event of recognizer r, answered by a restart of the
\* current recognizer that did not throw
RestartedBy(r) ==
  LET ended == [recState EXCEPT ![r] = "idle"]
  IN  /\ lastOp' = "onend"
      /\ r \in Active
      /\ ~StartThrows(ended[_recognition])
      /\ recState' = [ended EXCEPT ![_recognition] = "running"]

\* C19: when the recognizer ends unintentionally while the engine is
\* listening and the restart count is below the bound, and the restart
\* succeeds, isListening stays true and no event at all (so no status
\* change) is emitted.
C19_RestartIsSilent ==
  [][ (isListening /\ ~_intentionallyStopped /\ _restartAttempts < MaxRestarts
         /\ \E r \in RecogIds : RestartedBy(r)) =>
        /\ isListening'
        /\ emitted' = <<>>
        /\ _restartAttempts' = _restartAttempts + 1 ]_vars

\* the recognizer ended twice and was restarted each time
C19_Witness ==
  /\ lastOp = "onend"
  /\ isListening
  /\ ~_intentionallyStopped
  /\ _restartAttempts = 2
  /\ recState[_recognition] = "running"
  /\ emitted = <<>>

\* ------------------------------------------------------------------ C20

\* C20: stop() called while listening in continuous mode with a pending chunk
\* that holds text other than whitespace emits exactly one chunk-ready event,
\* carrying the trimmed pending text, then the not-listening status event and
\* nothing else, and leaves the pending chunk empty.
C20_StopFlushesRemainder ==
  [][ (lastOp' = "stop" /\ _mode = "webspeech" /\ isListening
         /\ getPendingChunk # <<>>) =>
        /\ emitted' = << ChunkEv(Trim(pendingChunk)), StatusEv(FALSE) >>
        /\ pendingChunk' = <<>>
        /\ ~isListening' ]_vars

\* stop() delivered "b" out of the pending " b " and then reported not listening
C20_Witness ==
  /\ lastOp = "stop"
  /\ _mode = "webspeech"
  /\ emitted = << ChunkEv(<< "b" >>), StatusEv(FALSE) >>
  /\ pendingChunk = <<>>
  /\ ~isListening

\* ------------------------------------------------------------------ C21

\* the step is the end event of a recognizer of an earlier session, delivered
\* while the current recognizer is running and the engine is listening
LateEnd ==
  /\ lastOp' = "onend"
  /\ isListening
  /\ _recognition # 0
  /\ recState[_recognition] = "running"
  /\ \E r \in RecogIds : r # _recognition /\ r \in Active /\ recState'[r] = "idle"

\* C21: when start() follows stop() before the end event of the previous
\* recognizer was delivered, that late end event leaves the new session
\* alone: the engine stays listening, the restart counter is not consumed
\* and the new recognizer stays as it is.
C21_LateEndIgnored ==
  [][ LateEnd =>
        /\ isListening'
        /\ _restartAttempts' = _restartAttempts
        /\ recState'[_recognition] = "running"
        /\ emitted' = <<>> ]_vars

\* ------------------------------------------------------------------ C22

\* C22: stop() cancels a start() that is suspended in the microphone request:
\* when the request is granted right after stop() (or reset()) returned, the
\* engine does not become listening, emits no status event with true, starts
\* no recorder and no timer, and holds no stream with a live track.
C22_StopCancelsPendingStart ==
  [][ (lastOp \in { "stop", "stopIdle", "reset" } /\ lastOp' = "grant") =>
        /\ ~isListening'
        /\ \A i \in 1..Len(emitted') : emitted'[i] # StatusEv(TRUE)
        /\ \A m \in RecIds : recorderState'[m] # "recording"
        /\ ~_chunkInterval'
        /\ _audioStream' = 0
        /\ \A s \in RecIds : ~trackLive'[s] ]_vars

\* ------------------------------------------------------------------ C23

\* C23: in every reachable state where isListening is false, neither the
\* periodic chunk timer nor the silence timer is armed.
C23_IdleHasNoTimers ==
  ~isListening =>
    /\ ~_silenceTimer
    /\ ~_chunkInterval
    /\ leakedIntervals = 0

\* ------------------------------------------------------------------ C24

IsSuffix(s, t) == Len(s) <= Len(t) /\ SubSeq(t, Len(t) - Len(s) + 1, Len(t)) = s

\* the transcript without the pending chunk at its end
Delivered == SubSeq(transcript, 1, Len(transcript) - Len(pendingChunk))

\* the chunk-ready events among evs
ChunkEvs(evs) == SelectSeq(evs, LAMBDA e : e.type = "chunk")

\* C24: in continuous mode, between resets and without appendTranscript()
\* calls, the transcript is the text already delivered in chunk-ready events
\* followed by the pending chunk: the pending chunk is the end of the
\* transcript, and the part before it changes only when one chunk-ready
\* event delivers the whole pending chunk (trimmed), which then joins it.
C24_TranscriptIsDeliveredPlusPending ==
  /\ [](~external => IsSuffix(pendingChunk, transcript))
  /\ [][ (~external' /\ lastOp' # "reset") =>
           IF ChunkEvs(emitted') = <<>>
           THEN Delivered' = Delivered
           ELSE /\ Len(ChunkEvs(emitted')) = 1
                /\ ChunkEvs(emitted')[1].text = Trim(pendingChunk)
                /\ Delivered' = Delivered \o pendingChunk
                /\ pendingChunk' = <<>> ]_vars

\* "a" was delivered in a chunk and a second "a" is pending
C24_Witness ==
  /\ ~external
  /\ transcript = << "a", SP, "a", SP >>
  /\ pendingChunk = << "a", SP >>
  /\ ~HasEv(emitted, "chunk")
  /\ unflushed = << "a" >>

\* ------------------------------------------------------------------ C25

\* C25: a flush is atomic for the chunk-ready subscriber it invokes: a
\* forceFlush() issued from inside the chunk-ready handler finds the pending
\* chunk already without the delivered text, so no step delivers more than one
\* chunk-ready event.
C25_FlushAtomic == Len(ChunkEvs(emitted)) <= 1

\* ------------------------------------------------------------------ C26

\* the step is an end event answered by a restart attempt that threw
RestartThrew ==
  /\ lastOp' = "onend"
  /\ ~_intentionallyStopped
  /\ _restartAttempts < MaxRestarts
  /\ ~\E r \in RecogIds : RestartedBy(r)

\* C26: when the restart after an unintentional end throws, the engine sets
\* isListening to false and emits the status event with false and nothing
\* else, the step starts no recognizer and counts one attempt, and no
\* exception leaves the handler.
C26_FailedRestartStops ==
  [][ RestartThrew =>
        /\ ~isListening'
        /\ emitted' = << StatusEv(FALSE) >>
        /\ _restartAttempts' = _restartAttempts + 1
        /\ \A r \in RecogIds : recState'[r] = "running" => recState[r] = "running"
        /\ ret' = "none" ]_vars

\* the first restart of a listening engine threw: the recognizer is idle
C26_Witness ==
  /\ lastOp = "onend"
  /\ ~_intentionallyStopped
  /\ _restartAttempts = 1
  /\ ~isListening
  /\ _recognition = 1
  /\ recState[1] = "idle"
  /\ emitted = << StatusEv(FALSE) >>

\* ------------------------------------------------------------------ C27

\* C27: a recognizer error event of kind no-speech, or of kind aborted while
\* an intentional stop is in effect, emits nothing; every other recognizer
\* error is handed to the error callback exactly once, with its kind; in all
\* cases isListening, transcript, pending chunk and restart counter are left
\* unchanged.
C27_ErrorForwarding ==
  [][ \A kind \in ErrorKinds :
        lastOp' = kind =>
          /\ emitted' = IF kind = "no-speech" \/ (kind = "aborted" /\ _intentionallyStopped)
                        THEN <<>>
                        ELSE << Ev("error", << kind >>, FALSE, <<>>) >>
          /\ UNCHANGED << isListening, transcript, pendingChunk, _restartAttempts >> ]_vars

\* an aborted error after stop() was swallowed while pending text was held
C27_Witness ==
  /\ lastOp = "aborted"
  /\ _intentionallyStopped
  /\ emitted = <<>>
  /\ transcript # <<>>

\* ------------------------------------------------------------------ C28

\* C28: start() clears the restart counter and the intentional-stop flag, so
\* a session started after restart exhaustion or after stop() tolerates ten
\* unintentional recognizer ends: while it is listening, an end event makes
\* it not listening below ten counted restarts only when the recognizer
\* could not be restarted.
C28_StartRestoresTolerance ==
  /\ [][ (lastOp' = "start" /\ ~isListening /\ ret' = "true") =>
           (_restartAttempts' = 0 /\ ~_intentionallyStopped' /\ isListening') ]_vars
  /\ [][ (lastOp' = "onend" /\ isListening /\ ~_intentionallyStopped /\ ~isListening') =>
           (_restartAttempts = MaxRestarts \/ recState'[_recognition] # "running") ]_vars

\* ------------------------------------------------------------------ C29

\* C29: a recognition event with no finalized segment (the history of the
\* finalized segments does not move) leaves the transcript and the pending
\* chunk unchanged and emits nothing, but arms the silence timer anew.
C29_InterimOnlyResult ==
  [][ (lastOp' = "onresult" /\ joined' = joined /\ anyFinal' = anyFinal) =>
        /\ transcript' = transcript
        /\ pendingChunk' = pendingChunk
        /\ emitted' = <<>>
        /\ _silenceTimer' ]_vars

\* a result event without finalized text arrived while text was pending: it
\* emitted nothing and the silence timer is armed
C29_Witness ==
  /\ lastOp = "onresult"
  /\ emitted = <<>>
  /\ _silenceTimer
  /\ pendingChunk # <<>>
  /\ isListening

\* ------------------------------------------------------------------ C30

SegmentRecording == _mediaRecorder # 0 /\ recorderState[_mediaRecorder] = "recording"

\* forceFlush() in recording mode with no segment recording: nothing is
\* emitted and no state changes
C31_IdleForceFlushNoOp ==
  [][ (lastOp' = "forceFlush" /\ _mode = "recorder" /\ ~SegmentRecording) =>
        /\ emitted' = <<>>
        /\ UNCHANGED << engineVars, timerVars, webVars, recVars >> ]_vars

\* forceFlush() in recording mode while a segment is recording closes the
\* segment at once: the recorder is stopped and its stop task queued
C31_ForceFlushClosesSegment ==
  [][ (lastOp' = "forceFlush" /\ _mode = "recorder" /\ SegmentRecording) =>
        /\ recorderState'[_mediaRecorder] = "inactive"
        /\ stopTasks' = stopTasks + 1
        /\ UNCHANGED << engineVars, timerVars, encoding >> ]_vars

\* C31: forceFlush() in recording mode while a segment is recording forces a
\* segment boundary (the recorder is stopped, and once its stop task has run
\* with the engine still listening, the delivery of the segment, which
\* restarts the recording, is outstanding); with no segment recording it
\* emits nothing and changes no state.
C31_ForceFlushForcesBoundary ==
  /\ C31_IdleForceFlushNoOp
  /\ C31_ForceFlushClosesSegment
  /\ [][ (lastOp' = "onstop" /\ isListening /\ _mediaRecorder # 0
            /\ recorderState[_mediaRecorder] = "inactive" /\ stopTasks' = 0) =>
           encoding' # EmptyBag ]_vars

\* ------------------------------------------------------------------ C32

\* the recorders that are recording, the streams whose tracks are live
Recording == { m \in RecIds : recorderState[m] = "recording" }
LiveStreams == { s \in RecIds : trackLive[s] }

\* C32: when the permission request of a start() resolves while the engine is
\* already listening (that start() overlapped an earlier one), no second
\* stream is acquired, no second recorder records and no second interval is
\* armed; and a stop() of the listening engine leaves no recorder recording,
\* no interval armed and no track live.
C32_OverlappingStartsAcquireOnce ==
  /\ [][ (lastOp' = "grant" /\ isListening) =>
           /\ nStreams' = nStreams
           /\ Cardinality(Recording') <= 1
           /\ leakedIntervals' = 0 ]_vars
  /\ [][ (lastOp' \in { "stop", "reset" } /\ _mode = "recorder" /\ isListening) =>
           /\ Recording' = {}
           /\ LiveStreams' = {}
           /\ ~_chunkInterval'
           /\ leakedIntervals' = 0 ]_vars

\* ------------------------------------------------------------------ C36

\* C36: appendTranscript(text) makes the transcript its former value followed
\* by the text and one space, emits exactly one event, the transcript-updated
\* event carrying the whole new buffer, and leaves the pending chunk,
\* isListening, the timers and the restart counter unchanged.
C36_AppendTranscriptFrame ==
  [][ lastOp' = "appendTranscript" =>
        /\ \E text \in AppendTexts : transcript' = transcript \o text \o << SP >>
        /\ emitted' = << TranscriptEv(transcript') >>
        /\ ~HasEv(emitted', "chunk")
        /\ UNCHANGED << pendingChunk, isListening, timerVars, _restartAttempts >> ]_vars

\* text was appended from outside while the engine was listening with
\* recognized text pending and both timers armed
C36_Witness ==
  /\ lastOp = "appendTranscript"
  /\ isListening
  /\ transcript = << "a", SP, "c", SP >>
  /\ pendingChunk = << "a", SP >>
  /\ _silenceTimer
  /\ _chunkInterval
  /\ emitted = << TranscriptEv(<< "a", SP, "c", SP >>) >>

\* ------------------------------------------------------------------ C37

\* C37: start() called while the engine is listening returns true, emits no
\* event and changes nothing: no recognizer or recorder is created or
\* started, no stream is requested, no timer is armed and the restart
\* counter keeps its value.
C37_StartWhileListeningNoOp ==
  [][ (lastOp' = "start" /\ isListening) =>
        /\ ret' = "true"
        /\ emitted' = <<>>
        /\ UNCHANGED << engineVars, timerVars, webVars, recVars >> ]_vars

\* start() was called on a listening engine that had already restarted its
\* recognizer once
C37_Witness ==
  /\ lastOp = "start"
  /\ ret = "true"
  /\ emitted = <<>>
  /\ isListening
  /\ _restartAttempts = 1
  /\ _silenceTimer

\* ------------------------------------------------------------------ C33

\* C33: in recording mode, once an earlier audio chunk has been relayed for
\* transcription (so a key is configured), the audio chunk of a segment that
\* the engine delivers after stop() (the engine is no longer listening: the
\* segment is the one stop() closed) is relayed like the earlier one: a
\* request for it is in flight when the subscriber has run.
C33_LastSegmentRelayed ==
  [][ (lastOp' = "encoded" /\ apiKey /\ ~isListening
         /\ 0 < nRelayed /\ nRelayed < MaxReq) =>
        /\ nRelayed' = nRelayed + 1
        /\ requests' = requests \cup { nRelayed' } ]_vars

\* ------------------------------------------------------------------ C34

\* the number of the relayed segment whose transcription is the letter c
SegNumber(c) == CHOOSE n \in 1..Len(SegLetters) : SegLetters[n] = c

\* C34: in recording mode the transcript holds the transcribed texts in the
\* order in which their segments were relayed: a text never stands before
\* the text of an earlier segment.
C34_AppendedInCaptureOrder ==
  \A i, j \in 1..Len(transcript) :
    (i < j /\ transcript[i] # SP /\ transcript[j] # SP) =>
      SegNumber(transcript[i]) < SegNumber(transcript[j])

\* ------------------------------------------------------------------ C35

\* C35: from the application's reset() until its next start() the
\* transcript is empty.
C35_EmptyAfterReset == resetDone => transcript = <<>>

\* ------------------------------------------------------------------ C38

\* C38: at most one immediate-help request is in flight, and the guard
\* helpRequested is set exactly while one is: a press of the help button
\* while a request is pending issues no second one, and the guard is
\* released when the request has completed, successfully or not.
C38_OneHelpRequest ==
  /\ helpInFlight <= 1
  /\ helpRequested <=> (helpInFlight = 1)

\* a help request has failed and the guard is released
C38_Witness ==
  /\ lastOp = "helpFailed"
  /\ ~helpRequested
  /\ helpInFlight = 0
  /\ isLive

====
